---------------------------- MODULE Spec2Model ----------------------------
(***************************************************************************)
(* The Slack event relay of StrongMonkey/slack-server.                     *)
(*                                                                         *)
(* The repository holds two variants of the /slack/events handler: the     *)
(* current one (main.go: direct messages, bot filter, TASK_API_URL) and an *)
(* earlier one (unnamed/part_000: app mentions only, fixed URL).  The      *)
(* variable "variant" says which of the two binaries is running.           *)
(*                                                                         *)
(* A request body is modelled as the JSON document it carries: its kind    *)
(* (syntax error, null, array, object), and for an object each member the  *)
(* envelope reads, which may be absent or of the wrong JSON type.  The     *)
(* handler is cut at the calls that can fail or block: every action is one *)
(* such step of one request.  The downstream service is the environment.   *)
(***************************************************************************)
EXTENDS Naturals, Sequences, FiniteSets

\* Number of requests the server handles at the same time.
NumReqs == 2

Slots == 1..NumReqs

\* net/http status codes used by the handler.
StatusOK == 200
StatusBadRequest == 400
StatusMethodNotAllowed == 405
StatusInternalServerError == 500
\* No status line written yet.
NoStatus == 0

\* A JSON member that is missing (or null): encoding/json leaves the field zero.
Absent == "<absent>"
\* A JSON member holding a number where the struct wants a string or an object.
WrongType == "<number>"

-----------------------------------------------------------------------------
(* Inputs *)

EventTypes == {Absent, "app_mention", "message", "reaction_added"}
ChannelTypes == {Absent, "im", "channel"}
PayloadTypes == {Absent, WrongType, "url_verification", "event_callback", "block_actions"}

NoEvent(k) ==
    [kind |-> k, type |-> Absent, text |-> Absent, channel |-> Absent,
     thread_ts |-> Absent, ts |-> Absent, user |-> Absent,
     channel_type |-> Absent, bot_id |-> Absent]

EventObjects ==
    [kind : {"object"}, type : EventTypes, text : {"hi"}, channel : {"C1"},
     thread_ts : {Absent, "", "100.0"}, ts : {Absent, "100.1"}, user : {"U1"},
     channel_type : ChannelTypes, bot_id : {Absent, "B1"}]

Events == EventObjects \cup {NoEvent("absent"), NoEvent("number")}

NonObject(k) ==
    [kind |-> k, type |-> Absent, challenge |-> Absent,
     event |-> NoEvent("absent"), trailing |-> FALSE]

\* trailing: the document is followed by further non-blank bytes.
ObjectBodies ==
    [kind : {"object"}, type : PayloadTypes, challenge : {Absent, "c-1"},
     event : Events, trailing : BOOLEAN]

Bodies == ObjectBodies \cup {NonObject("malformed"), NonObject("null"), NonObject("array")}

Methods == {"POST", "GET"}

Requests == [method : Methods, body : Bodies]

NoRequest == [method |-> "", body |-> NonObject("none")]

\* The requests of the concurrent specification: one of each path through
\* the handler, each with its own channel, user and text.
ConcEvent(t, txt, ch, th, u, ct, bot) ==
    [kind |-> "object", type |-> t, text |-> txt, channel |-> ch,
     thread_ts |-> th, ts |-> "100.1", user |-> u, channel_type |-> ct,
     bot_id |-> bot]

ConcBody(t, c, e) ==
    [kind |-> "object", type |-> t, challenge |-> c, event |-> e, trailing |-> FALSE]

ConcRequests ==
    { [method |-> "GET", body |-> NonObject("null")],
      [method |-> "POST", body |-> NonObject("malformed")],
      [method |-> "POST", body |-> ConcBody("url_verification", "c-1", NoEvent("absent"))],
      [method |-> "POST", body |-> ConcBody("event_callback", Absent,
          ConcEvent("app_mention", "hi", "C1", "100.0", "U1", "channel", Absent))],
      [method |-> "POST", body |-> ConcBody("event_callback", Absent,
          ConcEvent("message", "yo", "D2", Absent, "U2", "im", Absent))],
      [method |-> "POST", body |-> ConcBody("event_callback", Absent,
          ConcEvent("message", "beep", "D3", Absent, "U3", "im", "B1"))] }

\* What the downstream service may answer.
DownstreamReplies ==
    { [code |-> 200, body |-> "done"],
      [code |-> 500, body |-> "error"] }

NoReply == [code |-> 0, body |-> ""]

-----------------------------------------------------------------------------
(* Configuration *)

Variants == {"main.go", "part_000"}

\* OBOT_ACCESS_TOKEN: main exits unless it is set.
accessToken == "token"

\* TASK_API_URL is taken from the environment unchecked.
GoodURL == "https://obot.example/api/tasks/run"
BadURL == "https://obot.example:task/run"
TaskAPIs == {GoodURL, BadURL}

\* The URL the earlier variant forwards app mentions to.
HardcodedURL == "https://main.acornlabs.com/api/assistants/a1gnhpr/projects/p144lqv/tasks/w1sbtgq/run?step=*"

-----------------------------------------------------------------------------
VARIABLES
    variant,        \* which binary runs
    taskAPI,        \* the downstream URL handed to handleSlackEvents
    pc,             \* per request: where its handler stands
    req,            \* per request: the inbound request
    rawEventData,   \* per request: outcome of reading the inbound body
    payload,        \* per request: the decoded SlackEventPayload
    apiBody,        \* per request: the APIRequestBody built
    sent,           \* per request: the request handed to client.Do
    posts,          \* per request: number of client.Do calls
    ds,             \* per request: state of its downstream call
    dsReply,        \* per request: the downstream answer
    status,         \* per request: status written to the caller
    respBody,       \* per request: body written to the caller
    logged          \* per request: the log lines written

vars == <<variant, taskAPI, pc, req, rawEventData, payload, apiBody, sent, posts,
          ds, dsReply, status, respBody, logged>>

-----------------------------------------------------------------------------
(* Decoding and encoding *)

\* The Go string a JSON member decodes to.  A member of the wrong type is
\* reported as an error and the field stays zero.
Str(v) == IF v \in {Absent, WrongType} THEN "" ELSE v

\* SlackMessageEvent, main.go.
DecodeEvent(e) ==
    [Type |-> Str(e.type), Text |-> Str(e.text), ChannelID |-> Str(e.channel),
     ThreadTS |-> Str(e.thread_ts), TS |-> Str(e.ts), User |-> Str(e.user),
     ChannelType |-> Str(e.channel_type), BotID |-> Str(e.bot_id)]

\* SlackMessageEvent of the earlier variant has neither ChannelType nor BotID:
\* the members channel_type and bot_id are dropped, the fields read as "".
DecodeEventV0(e) ==
    [Type |-> Str(e.type), Text |-> Str(e.text), ChannelID |-> Str(e.channel),
     ThreadTS |-> Str(e.thread_ts), TS |-> Str(e.ts), User |-> Str(e.user),
     ChannelType |-> "", BotID |-> ""]

\* var payload SlackEventPayload
ZeroPayload == [Type |-> "", Challenge |-> "", Event |-> DecodeEvent(NoEvent("absent"))]

\* A syntax error: nothing is decoded.
SyntaxError(b) == b.kind = "malformed"

\* An UnmarshalTypeError: decoding goes on, the error is returned at the end.
TypeError(b) ==
    \/ b.kind = "array"
    \/ b.kind = "object" /\ (b.type = WrongType \/ b.event.kind = "number")

\* json.Unmarshal(rawEventData, &payload): the whole input must be one value.
Unmarshal(b) ==
    [err |-> SyntaxError(b) \/ b.trailing \/ TypeError(b),
     payload |-> IF b.kind = "object" /\ ~b.trailing
                 THEN [Type |-> Str(b.type), Challenge |-> Str(b.challenge),
                       Event |-> DecodeEvent(b.event)]
                 ELSE ZeroPayload]

\* json.NewDecoder(r.Body).Decode(&payload): decodes the first value of the
\* stream and leaves what follows it unread.
Decode(b) ==
    [err |-> SyntaxError(b) \/ TypeError(b),
     payload |-> IF b.kind = "object"
                 THEN [Type |-> Str(b.type), Challenge |-> Str(b.challenge),
                       Event |-> DecodeEventV0(b.event)]
                 ELSE ZeroPayload]

\* Fault: the condition without the bot_id filter.
QualifiesNoBotFilter(p) ==
    /\ p.Type = "event_callback"
    /\ \/ p.Event.Type = "app_mention"
       \/ /\ p.Event.ChannelType = "im"
          /\ p.Event.Type = "message"

\* The condition of "Handle message events", main.go.
Qualifies(p) ==
    /\ p.Type = "event_callback"
    /\ \/ p.Event.Type = "app_mention"
       \/ /\ p.Event.ChannelType = "im"
          /\ p.Event.Type = "message"
          /\ p.Event.BotID = ""

\* The condition of "Handle message events", earlier variant.
QualifiesV0(p) ==
    /\ p.Type = "event_callback"
    /\ p.Event.Type = "app_mention"

NoAPIBody == [THREAD_ID |-> "", CHANNEL_ID |-> "", USER_ID |-> "", QUERY |-> ""]

\* Fault: no fallback to ts.
ThreadOnly(ev) == ev.ThreadTS

\* THREAD_ID: thread_ts, else ts.
ThreadOrTS(ev) == IF ev.ThreadTS = "" THEN ev.TS ELSE ev.ThreadTS

\* Fault: the direct-message override is missing.
MakeAPIBodyKeepingThread(ev) ==
    [THREAD_ID |-> ThreadOrTS(ev),
     CHANNEL_ID |-> ev.ChannelID,
     USER_ID |-> ev.User,
     QUERY |-> ev.Text]

\* APIRequestBody as main.go fills it.
MakeAPIBody(ev) ==
    [THREAD_ID |-> IF ev.ChannelType = "im" THEN "" ELSE ThreadOrTS(ev),
     CHANNEL_ID |-> ev.ChannelID,
     USER_ID |-> ev.User,
     QUERY |-> ev.Text]

\* APIRequestBody as the earlier variant fills it.
MakeAPIBodyV0(ev) ==
    [THREAD_ID |-> ThreadOrTS(ev),
     CHANNEL_ID |-> ev.ChannelID,
     USER_ID |-> ev.User,
     QUERY |-> ev.Text]

\* apiURL
DownstreamURL == IF variant = "main.go" THEN taskAPI ELSE HardcodedURL

\* http.NewRequest fails when the URL does not parse.
URLParses(u) == u # BadURL

CookieHeader == "obot_access_token=" \o accessToken

\* The request built by http.NewRequest and the two Header.Set calls; the
\* body is the JSON object json.Marshal makes of apiBody.
OutboundRequest(url, body) ==
    [method |-> "POST", url |-> url, contentType |-> "application/json",
     cookie |-> CookieHeader, body |-> body]

NoOutbound ==
    [method |-> "", url |-> "", contentType |-> "", cookie |-> "", body |-> NoAPIBody]

\* Bodies written to the caller.
NoBody == [contentType |-> "", text |-> "", challenge |-> Absent]
ErrorBody(msg) == [contentType |-> "text/plain", text |-> msg, challenge |-> Absent]
\* json.NewEncoder(w).Encode(map[string]string{"challenge": c})
ChallengeBody(c) == [contentType |-> "application/json", text |-> "", challenge |-> c]

NotRead == NonObject("<unread>")
ReadError == NonObject("<read error>")

-----------------------------------------------------------------------------
(* The state after main has registered the handler and listens *)

Init ==
    /\ variant \in Variants
    /\ taskAPI \in TaskAPIs
    /\ pc = [r \in Slots |-> "idle"]
    /\ req = [r \in Slots |-> NoRequest]
    /\ rawEventData = [r \in Slots |-> NotRead]
    /\ payload = [r \in Slots |-> ZeroPayload]
    /\ apiBody = [r \in Slots |-> NoAPIBody]
    /\ sent = [r \in Slots |-> NoOutbound]
    /\ posts = [r \in Slots |-> 0]
    /\ ds = [r \in Slots |-> "none"]
    /\ dsReply = [r \in Slots |-> NoReply]
    /\ status = [r \in Slots |-> NoStatus]
    /\ respBody = [r \in Slots |-> NoBody]
    /\ logged = [r \in Slots |-> <<>>]

config == <<variant, taskAPI>>
downstream == <<ds, dsReply>>
response == <<status, respBody>>

\* The handler of request r moves on to label l.
Goto(r, l) == pc' = [pc EXCEPT ![r] = l]

\* The handler writes a status and a body, and returns.
Reply(r, code, body) ==
    /\ status' = [status EXCEPT ![r] = code]
    /\ respBody' = [respBody EXCEPT ![r] = body]
    /\ Goto(r, "done")

\* http.Error(w, msg, code); return
Error(r, msg, code) == Reply(r, code, ErrorBody(msg))

\* log.Printf
Log(r, line) == logged' = [logged EXCEPT ![r] = Append(@, line)]

-----------------------------------------------------------------------------
(* The server hands a request to the handler *)

Arrive(r, q) ==
    /\ pc[r] = "idle"
    /\ req' = [req EXCEPT ![r] = q]
    /\ Goto(r, "method")
    /\ UNCHANGED <<config, rawEventData, payload, apiBody, sent, posts,
                   downstream, response, logged>>

\* One request at a time, any request.
ArriveAlone(r) ==
    /\ \A s \in Slots : pc[s] = "idle"
    /\ \E q \in Requests : Arrive(r, q)

\* Any number of requests at a time.
ArriveAmong(r) ==
    /\ pc[r] = "idle"
    /\ \E q \in ConcRequests : Arrive(r, q)

-----------------------------------------------------------------------------
(* handleSlackEvents, step by step *)

\* Fault: the return after http.Error is missing.
CheckMethodNoReturn(r) ==
    /\ pc[r] = "method"
    /\ IF req[r].method # "POST"
       THEN /\ status' = [status EXCEPT ![r] = StatusMethodNotAllowed]
            /\ respBody' = [respBody EXCEPT ![r] = ErrorBody("Method not allowed")]
       ELSE UNCHANGED response
    /\ Goto(r, IF variant = "main.go" THEN "read" ELSE "decode")
    /\ UNCHANGED <<config, req, rawEventData, payload, apiBody, sent, posts,
                   downstream, logged>>

\* if r.Method != http.MethodPost
CheckMethod(r) ==
    /\ pc[r] = "method"
    /\ IF req[r].method # "POST"
       THEN Error(r, "Method not allowed", StatusMethodNotAllowed)
       ELSE /\ Goto(r, IF variant = "main.go" THEN "read" ELSE "decode")
            /\ UNCHANGED response
    /\ UNCHANGED <<config, req, rawEventData, payload, apiBody, sent, posts,
                   downstream, logged>>

\* rawEventData, err := io.ReadAll(r.Body)
ReadBody(r) ==
    /\ pc[r] = "read"
    /\ \/ /\ rawEventData' = [rawEventData EXCEPT ![r] = ReadError]
          /\ Error(r, "Failed to read request body", StatusInternalServerError)
          /\ UNCHANGED logged
       \/ /\ rawEventData' = [rawEventData EXCEPT ![r] = req[r].body]
          /\ Log(r, "Raw event data")
          /\ Goto(r, "unmarshal")
          /\ UNCHANGED response
    /\ UNCHANGED <<config, req, payload, apiBody, sent, posts, downstream>>

\* if err := json.Unmarshal(rawEventData, &payload); err != nil
UnmarshalBody(r) ==
    /\ pc[r] = "unmarshal"
    /\ LET res == Unmarshal(rawEventData[r]) IN
       /\ payload' = [payload EXCEPT ![r] = res.payload]
       /\ IF res.err
          THEN Error(r, "Failed to parse request body", StatusBadRequest)
          ELSE Goto(r, "dispatch") /\ UNCHANGED response
    /\ UNCHANGED <<config, req, rawEventData, apiBody, sent, posts, downstream, logged>>

\* Earlier variant: json.NewDecoder(r.Body).Decode(&payload) reads and decodes
\* in one call; a failed read is a decoding error.
DecodeBodyV0(r) ==
    /\ pc[r] = "decode"
    /\ \/ /\ rawEventData' = [rawEventData EXCEPT ![r] = ReadError]
          /\ Error(r, "Failed to parse request body", StatusBadRequest)
          /\ UNCHANGED payload
       \/ LET res == Decode(req[r].body) IN
          /\ rawEventData' = [rawEventData EXCEPT ![r] = req[r].body]
          /\ payload' = [payload EXCEPT ![r] = res.payload]
          /\ IF res.err
             THEN Error(r, "Failed to parse request body", StatusBadRequest)
             ELSE Goto(r, "dispatch") /\ UNCHANGED response
    /\ UNCHANGED <<config, req, apiBody, sent, posts, downstream, logged>>

\* Fault: the wrong field of the payload is echoed.
UrlVerificationEchoingType(r) ==
    /\ pc[r] = "dispatch"
    /\ payload[r].Type = "url_verification"
    /\ Reply(r, StatusOK, ChallengeBody(payload[r].Type))
    /\ UNCHANGED <<config, req, rawEventData, payload, apiBody, sent, posts,
                   downstream, logged>>

\* if payload.Type == "url_verification"
UrlVerification(r) ==
    /\ pc[r] = "dispatch"
    /\ payload[r].Type = "url_verification"
    /\ Reply(r, StatusOK, ChallengeBody(payload[r].Challenge))
    /\ UNCHANGED <<config, req, rawEventData, payload, apiBody, sent, posts,
                   downstream, logged>>

\* Fault: apiBody is one package-level variable, shared by all requests.
EventCallbackSharedBody(r) ==
    /\ pc[r] = "dispatch"
    /\ variant = "main.go"
    /\ payload[r].Type # "url_verification"
    /\ Qualifies(payload[r])
    /\ apiBody' = [s \in Slots |-> MakeAPIBody(payload[r].Event)]
    /\ Goto(r, "newrequest")
    /\ UNCHANGED <<config, req, rawEventData, payload, sent, posts, downstream,
                   response, logged>>

\* The "Handle message events" branch of main.go, up to json.Marshal(apiBody),
\* which cannot fail on a struct of strings.
EventCallback(r) ==
    /\ pc[r] = "dispatch"
    /\ variant = "main.go"
    /\ payload[r].Type # "url_verification"
    /\ Qualifies(payload[r])
    /\ apiBody' = [apiBody EXCEPT ![r] = MakeAPIBody(payload[r].Event)]
    /\ Goto(r, "newrequest")
    /\ UNCHANGED <<config, req, rawEventData, payload, sent, posts, downstream,
                   response, logged>>

\* The same branch of the earlier variant.
EventCallbackV0(r) ==
    /\ pc[r] = "dispatch"
    /\ variant = "part_000"
    /\ payload[r].Type # "url_verification"
    /\ QualifiesV0(payload[r])
    /\ apiBody' = [apiBody EXCEPT ![r] = MakeAPIBodyV0(payload[r].Event)]
    /\ Goto(r, "newrequest")
    /\ UNCHANGED <<config, req, rawEventData, payload, sent, posts, downstream,
                   response, logged>>

\* Neither branch is taken: on to w.WriteHeader.
OtherEvent(r) ==
    /\ pc[r] = "dispatch"
    /\ payload[r].Type # "url_verification"
    /\ ~(IF variant = "main.go" THEN Qualifies(payload[r]) ELSE QualifiesV0(payload[r]))
    /\ Goto(r, "respond")
    /\ UNCHANGED <<config, req, rawEventData, payload, apiBody, sent, posts,
                   downstream, response, logged>>

\* Fault: the request is sent from a goroutine of its own and the handler
\* answers at once.
NewRequestAndDoInBackground(r) ==
    /\ pc[r] = "newrequest"
    /\ IF ~URLParses(DownstreamURL)
       THEN /\ Error(r, "Failed to create API request", StatusInternalServerError)
            /\ UNCHANGED <<sent, posts, downstream>>
       ELSE /\ sent' = [sent EXCEPT ![r] = OutboundRequest(DownstreamURL, apiBody[r])]
            /\ posts' = [posts EXCEPT ![r] = @ + 1]
            /\ ds' = [ds EXCEPT ![r] = "pending"]
            /\ Goto(r, "respond")
            /\ UNCHANGED <<dsReply, response>>
    /\ UNCHANGED <<config, req, rawEventData, payload, apiBody, logged>>

\* http.NewRequest, the two Header.Set calls, and the call of client.Do, which
\* hands the request to the transport and blocks.
NewRequestAndDo(r) ==
    /\ pc[r] = "newrequest"
    /\ IF ~URLParses(DownstreamURL)
       THEN /\ Error(r, "Failed to create API request", StatusInternalServerError)
            /\ UNCHANGED <<sent, posts, downstream>>
       ELSE /\ sent' = [sent EXCEPT ![r] = OutboundRequest(DownstreamURL, apiBody[r])]
            /\ posts' = [posts EXCEPT ![r] = @ + 1]
            /\ ds' = [ds EXCEPT ![r] = "pending"]
            /\ Goto(r, "await")
            /\ UNCHANGED <<dsReply, response>>
    /\ UNCHANGED <<config, req, rawEventData, payload, apiBody, logged>>

\* resp, err := client.Do(req) returns: with an error, or with the response
\* once its header is in.
DoReturns(r) ==
    /\ pc[r] = "await"
    /\ ds[r] # "pending"
    /\ IF ds[r] = "failed"
       THEN Error(r, "Failed to send request to API", StatusInternalServerError)
       ELSE Goto(r, "readall") /\ UNCHANGED response
    /\ UNCHANGED <<config, req, rawEventData, payload, apiBody, sent, posts,
                   downstream, logged>>

\* Fault: the error of io.ReadAll is dropped.
ReadResponseIgnoringError(r) ==
    /\ pc[r] = "readall"
    /\ ds[r] \in {"complete", "broken"}
    /\ Log(r, "Response from API")
    /\ Goto(r, "respond")
    /\ UNCHANGED response
    /\ UNCHANGED <<config, req, rawEventData, payload, apiBody, sent, posts, downstream>>

\* Fault: a downstream status of 400 and above is reported as a failure.
ReadResponseCheckingStatus(r) ==
    /\ pc[r] = "readall"
    /\ ds[r] \in {"complete", "broken"}
    /\ IF ds[r] = "broken"
       THEN /\ Error(r, "Failed to read response body", StatusInternalServerError)
            /\ UNCHANGED logged
       ELSE /\ Log(r, "Response from API")
            /\ IF dsReply[r].code >= 400
               THEN Error(r, "API request failed", StatusInternalServerError)
               ELSE Goto(r, "respond") /\ UNCHANGED response
    /\ UNCHANGED <<config, req, rawEventData, payload, apiBody, sent, posts, downstream>>

\* respBody, err := io.ReadAll(resp.Body) returns.
ReadResponse(r) ==
    /\ pc[r] = "readall"
    /\ ds[r] \in {"complete", "broken"}
    /\ IF ds[r] = "broken"
       THEN /\ Error(r, "Failed to read response body", StatusInternalServerError)
            /\ UNCHANGED logged
       ELSE /\ Log(r, "Response from API")
            /\ Goto(r, "respond")
            /\ UNCHANGED response
    /\ UNCHANGED <<config, req, rawEventData, payload, apiBody, sent, posts, downstream>>

\* w.WriteHeader(http.StatusOK)
WriteHeaderOK(r) ==
    /\ pc[r] = "respond"
    /\ Reply(r, StatusOK, NoBody)
    /\ UNCHANGED <<config, req, rawEventData, payload, apiBody, sent, posts,
                   downstream, logged>>

\* The handler has returned: the server sends the response, and everything
\* the request held is gone.
Finish(r) ==
    /\ pc[r] = "done"
    /\ pc' = [pc EXCEPT ![r] = "idle"]
    /\ req' = [req EXCEPT ![r] = NoRequest]
    /\ rawEventData' = [rawEventData EXCEPT ![r] = NotRead]
    /\ payload' = [payload EXCEPT ![r] = ZeroPayload]
    /\ apiBody' = [apiBody EXCEPT ![r] = NoAPIBody]
    /\ sent' = [sent EXCEPT ![r] = NoOutbound]
    /\ posts' = [posts EXCEPT ![r] = 0]
    /\ ds' = [ds EXCEPT ![r] = "none"]
    /\ dsReply' = [dsReply EXCEPT ![r] = NoReply]
    /\ status' = [status EXCEPT ![r] = NoStatus]
    /\ respBody' = [respBody EXCEPT ![r] = NoBody]
    /\ logged' = [logged EXCEPT ![r] = <<>>]
    /\ UNCHANGED config

-----------------------------------------------------------------------------
(* The downstream service and the network to it *)

\* The response header arrives: client.Do can return the response.
DownstreamResponds(r) ==
    /\ ds[r] = "pending"
    /\ \E reply \in DownstreamReplies :
          dsReply' = [dsReply EXCEPT ![r] = reply]
    /\ ds' = [ds EXCEPT ![r] = "headers"]
    /\ UNCHANGED <<config, pc, req, rawEventData, payload, apiBody, sent, posts,
                   response, logged>>

\* The request cannot be sent, or no response comes: client.Do returns an error.
DownstreamFails(r) ==
    /\ ds[r] = "pending"
    /\ ds' = [ds EXCEPT ![r] = "failed"]
    /\ UNCHANGED <<config, pc, req, rawEventData, payload, apiBody, sent, posts,
                   dsReply, response, logged>>

\* The response body has arrived to its end.
BodyArrives(r) ==
    /\ ds[r] = "headers"
    /\ ds' = [ds EXCEPT ![r] = "complete"]
    /\ UNCHANGED <<config, pc, req, rawEventData, payload, apiBody, sent, posts,
                   dsReply, response, logged>>

\* The connection breaks before the end of the response body.
BodyBreaks(r) ==
    /\ ds[r] = "headers"
    /\ ds' = [ds EXCEPT ![r] = "broken"]
    /\ UNCHANGED <<config, pc, req, rawEventData, payload, apiBody, sent, posts,
                   dsReply, response, logged>>

-----------------------------------------------------------------------------
(* Specifications *)

Handler(r) ==
    \/ CheckMethod(r)
    \/ ReadBody(r)
    \/ UnmarshalBody(r)
    \/ DecodeBodyV0(r)
    \/ UrlVerification(r)
    \/ EventCallback(r)
    \/ EventCallbackV0(r)
    \/ OtherEvent(r)
    \/ NewRequestAndDo(r)
    \/ DoReturns(r)
    \/ ReadResponse(r)
    \/ WriteHeaderOK(r)

Downstream(r) ==
    \/ DownstreamResponds(r)
    \/ DownstreamFails(r)
    \/ BodyArrives(r)
    \/ BodyBreaks(r)

\* Every request, one at a time.
Next == \E r \in Slots : ArriveAlone(r) \/ Handler(r) \/ Downstream(r) \/ Finish(r)

Spec == Init /\ [][Next]_vars

\* The same, with the Go scheduler running every handler that can take a
\* step.  Nothing is assumed of the downstream service.
FairSpec == Init /\ [][Next]_vars /\ \A r \in Slots : WF_vars(Handler(r))

\* Requests handled concurrently, each by a goroutine of its own.
NextConc == \E r \in Slots : ArriveAmong(r) \/ Handler(r) \/ Downstream(r) \/ Finish(r)

ConcSpec == Init /\ [][NextConc]_vars

-----------------------------------------------------------------------------
(* The vocabulary of the properties: what a request carried, as Slack sent it *)

Done(r) == pc[r] = "done"

\* The body is one JSON value, nothing after it, with every member the
\* envelope names of the right type.
WellFormed(b) ==
    /\ b.kind \in {"object", "null"}
    /\ ~b.trailing
    /\ b.type # WrongType
    /\ b.event.kind # "number"

\* A POST whose body reached the handler whole.
PostRead(r) == req[r].method = "POST" /\ rawEventData[r] = req[r].body

\* A POST whose body parses as an envelope.
Envelope(r) == PostRead(r) /\ WellFormed(req[r].body)

EnvType(r) == Str(req[r].body.type)
Ev(r) == req[r].body.event

IsAppMention(r) == EnvType(r) = "event_callback" /\ Str(Ev(r).type) = "app_mention"

IsHumanDM(r) ==
    /\ EnvType(r) = "event_callback"
    /\ Str(Ev(r).channel_type) = "im"
    /\ Str(Ev(r).type) = "message"
    /\ Str(Ev(r).bot_id) = ""

EnvQualifies(r) == IsAppMention(r) \/ IsHumanDM(r)

\* thread_ts when set, else ts.
ThreadOrRoot(r) ==
    IF Str(Ev(r).thread_ts) # "" THEN Str(Ev(r).thread_ts) ELSE Str(Ev(r).ts)

Forwarded(r) == posts[r] > 0

-----------------------------------------------------------------------------
(* C1 *)

\* C1, as claimed: for every POST to /slack/events (main.go) whose body parses
\* as an envelope and whose type is not "url_verification", a downstream POST
\* is issued if and only if the event qualifies; otherwise there is no
\* downstream call and the answer is 200.
C1_DownstreamIffQualifies ==
    \A r \in Slots :
        (variant = "main.go" /\ Done(r) /\ Envelope(r) /\ EnvType(r) # "url_verification")
        => /\ Forwarded(r) <=> EnvQualifies(r)
           /\ ~EnvQualifies(r) => status[r] = StatusOK

\* C1, amended: a downstream POST is issued if and only if the event qualifies
\* and the downstream request can be built from TASK_API_URL; a qualifying
\* event whose request cannot be built is answered 500 without a downstream
\* call; in every other case there is no downstream call and the answer is 200.
C1_DownstreamIffQualifiesAndBuilt ==
    \A r \in Slots :
        (variant = "main.go" /\ Envelope(r) /\ EnvType(r) # "url_verification")
        => /\ Forwarded(r) => EnvQualifies(r) /\ URLParses(taskAPI)
           /\ Done(r) => /\ (EnvQualifies(r) /\ URLParses(taskAPI)) => Forwarded(r)
                         /\ (EnvQualifies(r) /\ ~URLParses(taskAPI))
                                => status[r] = StatusInternalServerError
                         /\ ~EnvQualifies(r) => status[r] = StatusOK

\* A bot's direct message has been answered 200 by main.go, nothing forwarded.
C1_Witness ==
    \E r \in Slots :
        /\ variant = "main.go" /\ Done(r) /\ Envelope(r)
        /\ EnvType(r) = "event_callback"
        /\ Str(Ev(r).type) = "message" /\ Str(Ev(r).channel_type) = "im"
        /\ Str(Ev(r).bot_id) # ""
        /\ ~Forwarded(r) /\ status[r] = StatusOK

-----------------------------------------------------------------------------
(* C2 *)

\* C2: a POSTed url_verification envelope is answered 200 with the body
\* {"challenge": <its challenge>}, whatever else it carries, and nothing is
\* sent downstream.
C2_ChallengeEchoed ==
    \A r \in Slots :
        (Envelope(r) /\ EnvType(r) = "url_verification")
        => /\ ~Forwarded(r) /\ sent[r] = NoOutbound
           /\ pc[r] \in {"unmarshal", "dispatch", "done"}
           /\ Done(r) => /\ status[r] = StatusOK
                         /\ respBody[r] = ChallengeBody(Str(req[r].body.challenge))

\* A url_verification envelope that also carries an app mention got its
\* challenge back.
C2_Witness ==
    \E r \in Slots :
        /\ Done(r) /\ Envelope(r) /\ EnvType(r) = "url_verification"
        /\ Str(Ev(r).type) = "app_mention"
        /\ req[r].body.challenge = "c-1"
        /\ respBody[r].challenge = "c-1"

-----------------------------------------------------------------------------
(* C3 *)

\* C3, as claimed: for every forwarded app_mention, whatever its channel_type,
\* THREAD_ID is thread_ts when set and ts otherwise.
C3_MentionThreadAnyChannel ==
    \A r \in Slots :
        (PostRead(r) /\ IsAppMention(r) /\ Forwarded(r))
        => sent[r].body.THREAD_ID = ThreadOrRoot(r)

\* C3, amended: for every forwarded app_mention whose channel_type is not
\* "im", THREAD_ID is thread_ts when set and ts otherwise.
C3_MentionThread ==
    \A r \in Slots :
        (PostRead(r) /\ IsAppMention(r) /\ Forwarded(r) /\ Str(Ev(r).channel_type) # "im")
        => sent[r].body.THREAD_ID = ThreadOrRoot(r)

\* An app mention outside a thread went out with its own ts.
C3_Witness ==
    \E r \in Slots :
        /\ PostRead(r) /\ IsAppMention(r) /\ Forwarded(r)
        /\ Str(Ev(r).channel_type) # "im"
        /\ Str(Ev(r).thread_ts) = "" /\ Str(Ev(r).ts) = "100.1"
        /\ sent[r].body.THREAD_ID = "100.1"

-----------------------------------------------------------------------------
(* C4 *)

\* C4: main.go forwards every qualifying event of channel_type "im" with an
\* empty THREAD_ID, whatever thread_ts and ts are.
C4_DirectMessageNoThread ==
    \A r \in Slots :
        (variant = "main.go" /\ PostRead(r) /\ Forwarded(r) /\ Str(Ev(r).channel_type) = "im")
        => sent[r].body.THREAD_ID = ""

\* A direct message inside a thread went out without a thread id.
C4_Witness ==
    \E r \in Slots :
        /\ variant = "main.go" /\ PostRead(r) /\ Forwarded(r) /\ IsHumanDM(r)
        /\ Str(Ev(r).thread_ts) = "100.0" /\ Str(Ev(r).ts) = "100.1"
        /\ sent[r].body.THREAD_ID = ""

-----------------------------------------------------------------------------
(* C5 *)

\* C5: a request whose method is not POST is answered 405; its body is not
\* read, nothing is decoded, logged or sent downstream.
C5_MethodNotAllowed ==
    \A r \in Slots :
        (pc[r] # "idle" /\ req[r].method # "POST")
        => /\ pc[r] \in {"method", "done"}
           /\ Done(r) => status[r] = StatusMethodNotAllowed
           /\ ~Forwarded(r) /\ sent[r] = NoOutbound
           /\ rawEventData[r] = NotRead /\ payload[r] = ZeroPayload
           /\ logged[r] = <<>>

\* A GET carrying a qualifying app mention was answered 405.
C5_Witness ==
    \E r \in Slots :
        /\ Done(r) /\ req[r].method = "GET"
        /\ WellFormed(req[r].body) /\ EnvQualifies(r)
        /\ status[r] = StatusMethodNotAllowed

-----------------------------------------------------------------------------
(* C6 *)

\* C6: a POST whose body does not parse as the envelope is answered 400 and
\* nothing is sent downstream.
C6_MalformedRejected ==
    \A r \in Slots :
        (PostRead(r) /\ ~WellFormed(req[r].body))
        => /\ ~Forwarded(r)
           /\ Done(r) => status[r] = StatusBadRequest

-----------------------------------------------------------------------------
(* C7 *)

\* The downstream request of a qualifying event could not be built.
BuildFailed(r) ==
    /\ variant = "main.go" /\ Envelope(r) /\ EnvType(r) # "url_verification"
    /\ EnvQualifies(r) /\ ~URLParses(taskAPI)

\* C7: when building the downstream request, sending it or reading its
\* response fails, the caller gets 500 and never 200; and no request causes
\* more than one downstream POST.
C7_FailureIs500NoRetry ==
    \A r \in Slots :
        /\ posts[r] <= 1
        /\ ds[r] \in {"failed", "broken"} => status[r] \in {NoStatus, StatusInternalServerError}
        /\ (Done(r) /\ (BuildFailed(r) \/ ds[r] \in {"failed", "broken"}))
            => status[r] = StatusInternalServerError

\* The response body of the one downstream POST broke off: the caller got 500.
C7_Witness ==
    \E r \in Slots :
        Done(r) /\ posts[r] = 1 /\ ds[r] = "broken" /\ status[r] = StatusInternalServerError

-----------------------------------------------------------------------------
(* C10 *)

\* C10: when the downstream POST was sent and its response body read to the
\* end, the caller gets 200 with an empty body, whatever status and body the
\* downstream service answered.
C10_DownstreamStatusIgnored ==
    \A r \in Slots :
        (Done(r) /\ Forwarded(r) /\ ds[r] = "complete")
        => status[r] = StatusOK /\ respBody[r] = NoBody

\* The downstream service answered 500 and the caller got 200.
C10_Witness ==
    \E r \in Slots :
        /\ Done(r) /\ Forwarded(r) /\ ds[r] = "complete"
        /\ dsReply[r].code = 500 /\ status[r] = StatusOK

-----------------------------------------------------------------------------
(* C8 *)

\* The downstream call of request r has completed or failed.
CallOver(r) == ds[r] \in {"failed", "complete", "broken"}

ResponseLogged(r) ==
    \E i \in 1..Len(logged[r]) : logged[r][i] = "Response from API"

\* No answer before the downstream call is over: 200 only once the response
\* body is read, 500 only on a failed build, send or read.
AnswerAfterCall(r) ==
    /\ Forwarded(r) => status[r] \in {NoStatus, StatusOK, StatusInternalServerError}
    /\ (Forwarded(r) /\ status[r] = StatusOK) => ds[r] = "complete" /\ ResponseLogged(r)
    /\ (Forwarded(r) /\ status[r] = StatusInternalServerError) => ds[r] \in {"failed", "broken"}
    /\ (variant = "main.go" /\ Envelope(r) /\ EnvType(r) # "url_verification"
            /\ EnvQualifies(r) /\ status[r] # NoStatus)
        => \/ status[r] = StatusOK /\ Forwarded(r)
           \/ status[r] = StatusInternalServerError /\ (BuildFailed(r) \/ Forwarded(r))

\* A status once written stays as long as the request lives.
StatusFinal(r) ==
    (status[r] # NoStatus /\ pc'[r] # "idle") => status'[r] = status[r] /\ pc'[r] = "done"

\* C8: for a qualifying event the caller is answered only after the
\* downstream call has completed or failed (200 after the response body is
\* read, 500 after a failed build, send or read), the status written is
\* final, and once the downstream call is over the caller is answered.
C8_AnsweredAfterDownstream ==
    /\ [](\A r \in Slots : AnswerAfterCall(r))
    /\ [][\A r \in Slots : StatusFinal(r)]_vars
    /\ \A r \in Slots : CallOver(r) ~> (status[r] # NoStatus)

\* A human direct message is answered 200, its downstream response read and
\* logged before.
C8_Witness ==
    \E r \in Slots :
        /\ Envelope(r) /\ IsHumanDM(r)
        /\ Done(r) /\ Forwarded(r) /\ ds[r] = "complete" /\ ResponseLogged(r)
        /\ status[r] = StatusOK

-----------------------------------------------------------------------------
(* C9 *)

\* Everything request r holds.
Local(r) ==
    <<pc[r], req[r], rawEventData[r], payload[r], apiBody[r], sent[r], posts[r],
      ds[r], dsReply[r], status[r], respBody[r], logged[r]>>

\* What request r forwards and answers is made of its own fields.
OwnData(r) ==
    /\ Forwarded(r) => /\ sent[r].body.CHANNEL_ID = Str(Ev(r).channel)
                       /\ sent[r].body.USER_ID = Str(Ev(r).user)
                       /\ sent[r].body.QUERY = Str(Ev(r).text)
                       /\ sent[r].body.THREAD_ID \in {"", ThreadOrRoot(r)}
                       /\ sent[r].url = DownstreamURL
                       /\ sent[r].cookie = CookieHeader
    /\ respBody[r].challenge \in {Absent, Str(req[r].body.challenge)}

\* Two answered requests with the same method, body, read outcome and
\* downstream outcome forwarded the same and were answered the same.
SameInSameOut(r, q) ==
    (/\ Done(r) /\ Done(q)
     /\ req[r] = req[q] /\ rawEventData[r] = rawEventData[q] /\ ds[r] = ds[q])
    => /\ status[r] = status[q]
       /\ respBody[r] = respBody[q]
       /\ sent[r] = sent[q]

\* A step changes what one request holds, and no other's.
OneRequestPerStep ==
    \A r, q \in Slots : (r # q /\ Local(r)' # Local(r)) => Local(q)' = Local(q)

\* C9: concurrent requests share no mutable state: status, response body and
\* forwarded body of each depend on its own method and body, the configuration
\* and its own downstream outcome only, never on another request in flight.
C9_NoSharedState ==
    /\ [](\A r \in Slots : OwnData(r))
    /\ [](\A r, q \in Slots : SameInSameOut(r, q))
    /\ [][OneRequestPerStep]_vars

\* Two requests with different events are both waiting for their downstream
\* calls.
C9_Witness ==
    \E r, q \in Slots :
        /\ pc[r] = "await" /\ pc[q] = "await"
        /\ Forwarded(r) /\ Forwarded(q)
        /\ sent[r].body.CHANNEL_ID # sent[q].body.CHANNEL_ID

=============================================================================
